---- MODULE Spec2Model ----
(***************************************************************************)
(* Model of the load-balancing core of faceair/request (request.go):       *)
(* HTTPBalancer.Do with its resolution cache, the RWMutex that guards the  *)
(* cache, and the error classification; safeRnd; the Client's base URLs,   *)
(* round-robin selection and the setters that change what r.http is and    *)
(* how its transport dials; DNSBalancer.DialContext.                       *)
(*                                                                         *)
(* Strings are sequences of byte codes (58 is ':'), a Go slice is a record *)
(* [nil, a]: nil tells the nil slice from an empty one, a is the content   *)
(* of the backing array seen through the slice.                            *)
(*                                                                         *)
(* The callers exercise one component per behaviour (variable scene): an   *)
(* HTTPBalancer called directly, a safeRnd, a Client with its transport    *)
(* and the HTTPBalancer it is given, or a DNSBalancer called directly.     *)
(* The HTTPBalancer in r.http runs the same steps under Client.Do as one   *)
(* called directly; the HTTPBalancers it wraps are its sender, known by    *)
(* what their Do returns.                                                  *)
(***************************************************************************)
EXTENDS Integers, Sequences, FiniteSets, TLC

\* ---------------------------------------------------------------- bounds
NumCallers == 2     \* concurrent goroutines, each issuing one Do call
NumHosts   == 2     \* configured upstream hosts
MaxIPs     == 2     \* longest address list the resolver returns
MaxTime    == 1     \* wall clock runs 0..MaxTime
MaxTTL     == 1     \* cacheTTL is drawn from 0..MaxTTL
MaxItems   == 3     \* safeRnd is called with n in 0..MaxItems
MaxURLs    == 3     \* SetBaseURLs is given at most this many base URLs
MaxWraps   == 2     \* EnableHTTPBalance stacks at most this many balancers

Callers == 1..NumCallers
NoCaller == 0

\* ---------------------------------------------------------------- strings
\* Host i of the configuration: odd hosts carry a port ("a:80"), even ones
\* do not ("b").
HostName(i) == IF i % 2 = 1 THEN <<96 + i, 58, 56, 48>> ELSE <<96 + i>>
TargetHosts == [i \in 1..NumHosts |-> HostName(i)]

\* The address the resolver knows as number k, as a string ("1", "2", ...).
IPName(k) == <<48 + k>>

Range(s) == {s[i] : i \in DOMAIN s}

\* strings.LastIndexByte / IndexByte, 0 when absent (1-based positions).
LastIndex(s, ch) ==
    IF \E i \in DOMAIN s : s[i] = ch
    THEN CHOOSE i \in DOMAIN s : s[i] = ch /\ \A j \in DOMAIN s : s[j] = ch => j <= i
    ELSE 0

\* net.SplitHostPort for bracket-free input: no ':' is "missing port", a ':'
\* left of the last one is "too many colons"; both return "", "", err.
SplitHostPort(hostport) ==
    LET i == LastIndex(hostport, 58) IN
    IF i = 0
    THEN [host |-> <<>>, port |-> <<>>, ok |-> FALSE]
    ELSE LET h == SubSeq(hostport, 1, i - 1) IN
         IF 58 \in Range(h)
         THEN [host |-> <<>>, port |-> <<>>, ok |-> FALSE]
         ELSE [host |-> h, port |-> SubSeq(hostport, i + 1, Len(hostport)), ok |-> TRUE]

\* domain, port of the loop body: domain falls back to the whole host.
DomainOf(host) ==
    IF SplitHostPort(host).host = <<>> THEN host ELSE SplitHostPort(host).host
PortOf(host) == SplitHostPort(host).port

\* net.JoinHostPort: a host containing ':' is bracketed.
JoinHostPort(host, port) ==
    IF 58 \in Range(host)
    THEN <<91>> \o host \o <<93, 58>> \o port
    ELSE host \o <<58>> \o port

\* Mutant: the address is used as the destination without the host's port.
HostnameWithoutPort(ip, port) == ip

\* hostname of the send loop.
Hostname(ip, port) == IF port # <<>> THEN JoinHostPort(ip, port) ELSE ip

\* ---------------------------------------------------------------- URLs
\* "http://", "https://", and base URL i: host i after "http://" when i is
\* odd ("http://a:80"), after "https://" when i is even ("https://b").
HTTP == <<104, 116, 116, 112, 58, 47, 47>>
HTTPS == <<104, 116, 116, 112, 115, 58, 47, 47>>
BaseURL(i) == (IF i % 2 = 1 THEN HTTP ELSE HTTPS) \o HostName(i)

\* ":", which url.Parse rejects.
BadURL == <<58>>

\* The proxy URLs SetProxyURL is given: "", "http://q", and ":".
ProxyURL == HTTP \o <<113>>
ProxyURLs == {<<>>, ProxyURL, BadURL}

\* What SetBaseURLs is given: the first k base URLs, k in 0..MaxURLs, or the
\* one URL that does not parse.
BaseURLLists == {[i \in 1..k |-> BaseURL(i)] : k \in 0..MaxURLs} \cup {<<BadURL>>}

\* The lists of at most one base URL, over the hosts an HTTPBalancer is given.
SingleBaseURLs == {<<>>, <<BadURL>>} \cup {<<BaseURL(i)>> : i \in 1..NumHosts}

\* The URIs handed to Client.Do: the path "/p", and "http://z:80/p", which
\* names a scheme and a host of its own.
PathURI == <<47, 112>>
ForeignHost == <<122, 58, 56, 48>>
URIs == {PathURI, HTTP \o ForeignHost \o PathURI}

IsLetter(ch) == ch \in 65..90 \/ ch \in 97..122
IsSchemeChar(ch) == ch \in 48..57 \/ ch \in {43, 45, 46}

\* The first position of s at or after i that holds ch, Len(s) + 1 if none.
RECURSIVE IndexFrom(_, _, _)
IndexFrom(s, i, ch) ==
    IF i > Len(s) THEN Len(s) + 1
    ELSE IF s[i] = ch THEN i ELSE IndexFrom(s, i + 1, ch)

\* url.Parse's getScheme: the length of the scheme of rawURL from position i
\* on, 0 when it has none: letters (and, past the first place, digits, '+',
\* '-', '.') up to a ':'.
RECURSIVE SchemeLen(_, _)
SchemeLen(rawURL, i) ==
    IF i > Len(rawURL) THEN 0
    ELSE IF IsLetter(rawURL[i]) THEN SchemeLen(rawURL, i + 1)
    ELSE IF IsSchemeChar(rawURL[i]) THEN (IF i = 1 THEN 0 ELSE SchemeLen(rawURL, i + 1))
    ELSE IF rawURL[i] = 58 THEN i - 1
    ELSE 0

\* url.Parse fails: getScheme finds the ':' in the first place ("missing
\* protocol scheme").
ParseFails(rawURL) == rawURL # <<>> /\ rawURL[1] = 58

\* url.Parse(rawURL).Scheme
UrlScheme(rawURL) == SubSeq(rawURL, 1, SchemeLen(rawURL, 1))

\* url.Parse(rawURL).Host: what follows "//" after the scheme, up to the
\* next '/'; empty when there is no "//".
UrlHost(rawURL) ==
    LET n    == SchemeLen(rawURL, 1)
        rest == IF n = 0 THEN rawURL ELSE SubSeq(rawURL, n + 2, Len(rawURL))
    IN
    IF Len(rest) >= 2 /\ rest[1] = 47 /\ rest[2] = 47
    THEN SubSeq(rest, 3, IndexFrom(rest, 3, 47) - 1)
    ELSE <<>>

\* net/http's portMap: the default port of a scheme, "" for any other one.
PortMap(scheme) ==
    IF scheme = <<104, 116, 116, 112>> THEN <<56, 48>>
    ELSE IF scheme = <<104, 116, 116, 112, 115>> THEN <<52, 52, 51>>
    ELSE IF scheme = <<115, 111, 99, 107, 115, 53>> THEN <<49, 48, 56, 48>>
    ELSE <<>>

\* net/http's canonicalAddr: the URL's host with its port, the port of the
\* URL's scheme when the host names none.
CanonicalAddr(scheme, host) ==
    IF 58 \in Range(host) THEN host ELSE JoinHostPort(host, PortMap(scheme))

\* ---------------------------------------------------------------- slices
NilSlice == [nil |-> TRUE, a |-> <<>>]
Slice(s) == [nil |-> FALSE, a |-> s]

\* ---------------------------------------------------------------- errors
\* An error is its Unwrap chain (outermost first) plus where it arose:
\* the host, the address and the number of the send attempt (0: none).
OpError(op) == [type |-> "OpError", op |-> op]
Plain(t)    == [type |-> t, op |-> ""]

NoErr == [chain |-> <<>>, host |-> <<>>, ip |-> <<>>, n |-> 0]
Err(chain, host, ip, n) == [chain |-> chain, host |-> host, ip |-> ip, n |-> n]

\* What the wrapped sender can fail with.
SendChains ==
    { <<Plain("url.Error"), OpError("dial")>>,
      <<Plain("url.Error"), OpError("read")>>,
      <<Plain("context.Canceled")>> }

\* net.LookupHost's failure.
LookupErr(domain) == Err(<<Plain("DNSError:lookup")>>, domain, <<>>, 0)

newNoSuchHostError(host) == Err(<<Plain("DNSError:notfound")>>, host, <<>>, 0)

\* errors.As(err, &opErr): the first *net.OpError of the chain, if any.
RECURSIVE AsOpError(_)
AsOpError(chain) ==
    IF chain = <<>> THEN [found |-> FALSE, op |-> ""]
    ELSE IF Head(chain).type = "OpError"
         THEN [found |-> TRUE, op |-> Head(chain).op]
         ELSE AsOpError(Tail(chain))

\* Mutant: every error retried.
isRetryableAlways(err) == TRUE
isRetryableError(err) ==
    IF ~AsOpError(err.chain).found THEN FALSE
    ELSE AsOpError(err.chain).op = "dial"

NoResp == [ok |-> FALSE, host |-> <<>>, addr |-> <<>>, n |-> 0]
Resp(host, addr, n) == [ok |-> TRUE, host |-> host, addr |-> addr, n |-> n]


\* ---------------------------------------------------------------- inputs
\* net.LookupHost succeeds with the first k addresses it knows (k = 0 as a
\* nil or as an empty slice), or fails.
LookupResults ==
    {NilSlice} \cup {Slice([i \in 1..k |-> IPName(i)]) : k \in 0..MaxIPs}

HostSet == Range(TargetHosts)

\* ---------------------------------------------------------------- senders
\* The request as a sender is handed it: the URL's scheme, the Host header
\* (the URL's host while req.Host is empty), the address in the URL when a
\* balancer has put one there, and the number of the attempt it is.
Request(scheme, host, addr, n) ==
    [scheme |-> scheme, host |-> host, addr |-> addr, n |-> n]

\* The http.Client's error for a URL without a scheme.
Unsupported(req) ==
    Err(<<Plain("url.Error"), Plain("unsupported protocol scheme")>>,
        req.host, req.addr, req.n)

\* What a Do returns, and what it leaves in the request it was handed (the
\* caller's *http.Request, which an HTTPBalancer writes to): a response,
\* neither a response nor an error, an error.
Ok(req) ==
    [ok |-> TRUE, empty |-> FALSE, err |-> NoErr, host |-> req.host, addr |-> req.addr]
NilNil(req) ==
    [ok |-> FALSE, empty |-> TRUE, err |-> NoErr, host |-> req.host, addr |-> req.addr]
Fail(e, req) ==
    [ok |-> FALSE, empty |-> FALSE, err |-> e, host |-> req.host, addr |-> req.addr]

\* net/http's Transport.dialConn, wrapErr: the error of a dial made for a
\* proxy is wrapped in a net.OpError whose Op is "proxyconnect".
WrapErr(proxied, chain) ==
    IF proxied THEN <<OpError("proxyconnect")>> \o chain ELSE chain

\* What an http.Client can fail with: a failed dial (of the proxy when its
\* transport is given one), a failed read, a cancelled context.
ClientChains(proxied) ==
    { <<Plain("url.Error")>> \o WrapErr(proxied, <<OpError("dial")>>),
      <<Plain("url.Error"), OpError("read")>>,
      <<Plain("context.Canceled")>> }

\* What an http.Client returns for the request: the error of a URL without
\* a scheme, or a response or a failure of the exchange.  The request stays
\* as it was handed over.
ClientOutcomes(req, proxied) ==
    IF req.scheme = <<>>
    THEN {Fail(Unsupported(req), req)}
    ELSE {Ok(req)}
         \cup {Fail(Err(ch, req.host, req.addr, req.n), req) : ch \in ClientChains(proxied)}

\* What a sender of the caller's own returns.
CustomOutcomes(req) ==
    {Ok(req)} \cup {Fail(Err(ch, req.host, req.addr, req.n), req) : ch \in SendChains}

\* The request with the Host header and the URL host an attempt for the
\* k-th address of the host h gives it: req.Host = host; req.URL.Host =
\* hostname.
Rewritten(req, h, k) ==
    [req EXCEPT !.host = h, !.addr = Hostname(IPName(k), PortOf(h))]

\* What the sender wrapped by an HTTPBalancer returns when it is a stack of
\* further HTTPBalancers (their hosts, outermost first) over a base.  One of
\* these without hosts does `return nil, finalErr` with no error recorded and
\* leaves the request alone.  One with hosts passes the request on, rewritten
\* for one of its hosts and one of that host's addresses, and returns what
\* it gets back (at once, or as the last error recorded); or it returns the
\* resolver's error or "no such host" for the host it tried last, and then
\* the request is as it was handed over, or as an attempt for another host,
\* which failed with a retryable error, has left it.  A base of "none" is
\* the nil httpClient of the zero HTTPBalancer, which is never called;
\* proxied tells whether the transport of a base http.Client has a proxy URL.
RECURSIVE DoOutcomes(_, _, _, _)
DoOutcomes(layers, base, proxied, req) ==
    IF layers = <<>>
    THEN (IF base = "client" THEN ClientOutcomes(req, proxied)
          ELSE IF base = "custom" THEN CustomOutcomes(req)
          ELSE {})
    ELSE IF Head(layers) = <<>>
    THEN {NilNil(req)}
    ELSE LET hs == Range(Head(layers))
             passed(h) == UNION { DoOutcomes(Tail(layers), base, proxied,
                                             Rewritten(req, h, k))
                                  : k \in 1..MaxIPs }
             left(h) == {req} \cup
                        UNION { { [req EXCEPT !.host = o.host, !.addr = o.addr]
                                  : o \in {x \in passed(g) :
                                             x.err # NoErr /\ isRetryableError(x.err)} }
                                : g \in hs \ {h} }
         IN UNION { passed(h)
                    \cup { Fail(Err(<<Plain("DNSError:lookup")>>, DomainOf(h), <<>>, req.n), q)
                           : q \in left(h) }
                    \cup { Fail(Err(<<Plain("DNSError:notfound")>>, h, <<>>, req.n), q)
                           : q \in left(h) }
                  : h \in hs }

\* ---------------------------------------------------------------- state
VARIABLES
    hosts,          \* lb.hosts
    cacheTTL,       \* lb.cacheTTL
    cachedIPs,      \* lb.cachedIPs    : host -> slice
    cachedExpiry,   \* lb.cachedExpiry : host -> time
    muReaders,      \* lb.mu: the callers holding the read lock
    muWriter,       \* lb.mu: the caller holding the write lock
    rndMux,         \* lb.rnd.mux: its holder
    now,            \* time.Now()
    call,           \* per caller: position and locals of its Do call
    serial,         \* the workload: calls one after another, or concurrent
    written,        \* observer: which call stored each map's entry for a host
    scene,          \* the workload: the component the callers exercise
    rnd,            \* per caller: position and locals of its safeRnd call
    client,         \* the Client: its fields, its transport, its selections
    cdo,            \* per caller: position and locals of its Client.Do call
    dial            \* per caller: position and locals of its DialContext call

vars == <<hosts, cacheTTL, cachedIPs, cachedExpiry, muReaders, muWriter,
          rndMux, now, call, serial, written, scene, rnd, client, cdo, dial>>

\* What HTTPBalancer.Do never touches: the state of the other components.
others  == <<scene, rnd, client, cdo, dial>>
lbConf  == <<hosts, cacheTTL, serial, others>>
lbCache == <<cachedIPs, cachedExpiry, written>>
lbLocks == <<muReaders, muWriter, rndMux>>

\* newHTTPBalancer: empty maps, the given hosts and TTL.  Locals of a call
\* that has not started.  The last six fields only observe the call: the sends
\* made, the LookupHost calls per host, whether the current list came from
\* the cache, what the cache held for the current host when it was read
\* ("absent", "expired", "fresh"), the hosts a list was obtained for, and the
\* latest failure.
\* reqHost and reqURLHost are req.Host and req.URL.Host; sentHost and
\* sentURLHost observe what they were when the sender was last invoked.
\* uriHost and explicit observe the request as it came in; cancelled is the
\* state of the request's context, cancelledAt the sends made before it was
\* cancelled.
IdleCall ==
    [pc |-> "idle", hosts |-> <<>>, hi |-> 0, ips |-> NilSlice,
     shared |-> FALSE, ci |-> 0, si |-> 0, sj |-> 0, tmp |-> <<>>, ii |-> 0,
     reqHost |-> <<>>, reqURLHost |-> <<>>, sentHost |-> <<>>,
     sentURLHost |-> <<>>, finalErr |-> NoErr,
     uriHost |-> <<>>, explicit |-> FALSE, cancelled |-> FALSE, cancelledAt |-> 0,
     resp |-> NoResp, err |-> NoErr,
     sends |-> 0, lookups |-> [h \in HostSet |-> 0], hit |-> FALSE,
     seen |-> "none", resolved |-> 0, lastFail |-> NoErr, ipsFor |-> <<>>,
     sentNil |-> FALSE]

\* A goroutine that is not inside safeRnd.
IdleRnd == [pc |-> "idle", op |-> "", n |-> 0, items |-> <<>>, i |-> 0, out |-> 0]

\* New(): no base URL, the counter at 0, r.http a plain http.Client whose
\* transport is an *http.Transport that dials through net.Dialer.
\*   http       what r.http is: the "client", a "balancer", a "custom" sender
\*   inner      the hosts of the HTTPBalancers below r.http, outermost first
\*   base       what the innermost httpClient is: the "client", a "custom"
\*              sender, or "none" (the nil httpClient of a zero HTTPBalancer)
\*   transport  the Transport of that http.Client: "http" for an
\*              *http.Transport, "default" for none (nil)
\*   dns        the transport dials through a DNSBalancer
\*   insecure   the transport's InsecureSkipVerify
\*   proxy      the transport's Proxy: http.ProxyFromEnvironment ("env", in
\*              an environment that names no proxy), the proxy URL given to
\*              SetProxyURL ("url"), or nil ("none")
\*   panicked   a setup call panicked
\*   window     the latest counter values that selections read since the
\*              base URLs were set (an observer)
NewClient ==
    [baseURLs |-> <<>>, currIndex |-> 0, mux |-> NoCaller, http |-> "client",
     inner |-> <<>>, base |-> "client", transport |-> "http",
     dns |-> FALSE, insecure |-> FALSE, proxy |-> "env", panicked |-> FALSE,
     window |-> <<>>]

\* A goroutine that is not inside Client.Do.
IdleDo ==
    [pc |-> "idle", uri |-> <<>>, relative |-> FALSE, host |-> <<>>,
     ok |-> FALSE, empty |-> FALSE, err |-> NoErr]

\* A goroutine that is not inside DNSBalancer.DialContext.  The last four
\* fields only observe the call: the list as the resolver returned it, the
\* hosts looked up, the addresses dialed in order, and how many dials had
\* been made when the context was cancelled.
IdleDial ==
    [pc |-> "idle", addr |-> <<>>, host |-> <<>>, port |-> <<>>, ips |-> <<>>,
     i |-> 0, cancelled |-> FALSE, lastErr |-> NoErr, conn |-> <<>>,
     err |-> NoErr,
     resolved |-> <<>>, looked |-> <<>>, tried |-> <<>>, cancelledAt |-> 0]

\* The callers exercise one component at a time.
Scenes == {"balancer", "rnd", "client", "setup", "shared", "dial"}

\* The scenes in which a Client is configured and used.
ClientScenes == {"client", "setup", "shared"}

\* The state of the components that are not HTTPBalancer's.
InitOthers ==
    /\ rnd = [c \in Callers |-> IdleRnd]
    /\ client = NewClient
    /\ cdo = [c \in Callers |-> IdleDo]
    /\ dial = [c \in Callers |-> IdleDial]

\* The balancer's workload is either the calls issued one after another
\* against all the configured hosts, or issued concurrently against the first
\* of them.  In the scenes of a Client no HTTPBalancer exists until the
\* Client is given one.  The scene "client" has the goroutines issue requests
\* concurrently between calls of SetBaseURLs; the scene "setup" has one
\* goroutine issue requests between calls of any setter, each given at most
\* one base URL; the scene "shared" has the goroutines issue requests for a
\* path concurrently on a Client given the first base URL and then one
\* HTTPBalancer.
Init ==
    /\ scene \in Scenes
    /\ serial \in IF scene = "balancer" THEN BOOLEAN ELSE {FALSE}
    /\ hosts = IF scene # "balancer" THEN <<>>
               ELSE IF serial THEN TargetHosts ELSE SubSeq(TargetHosts, 1, 1)
    /\ cacheTTL \in IF scene = "balancer" THEN 0..MaxTTL ELSE {0}
    /\ InitOthers
    /\ cachedIPs = [h \in {} |-> NilSlice]
    /\ cachedExpiry = [h \in {} |-> 0]
    /\ written = [ips |-> [h \in {} |-> NoCaller], exp |-> [h \in {} |-> NoCaller]]
    /\ muReaders = {}
    /\ muWriter = NoCaller
    /\ rndMux = NoCaller
    /\ now = 0
    /\ call = [c \in Callers |-> IdleCall]

\* ---------------------------------------------------------------- helpers
Put(f, k, v) == [x \in DOMAIN f \cup {k} |-> IF x = k THEN v ELSE f[x]]

Perms(s) ==
    { [i \in DOMAIN s |-> s[p[i]]] :
        p \in {q \in [DOMAIN s -> DOMAIN s] : \A i, j \in DOMAIN s : q[i] = q[j] => i = j} }

Host(r) == r.hosts[r.hi]

\* End of one host's iteration: the next host, or `return nil, finalErr`.
Advance(r) ==
    IF r.hi < Len(r.hosts)
    THEN [r EXCEPT !.pc = "host", !.hi = r.hi + 1, !.ips = NilSlice,
                   !.shared = FALSE, !.ii = 0, !.hit = FALSE, !.seen = "none",
                   !.ipsFor = <<>>]
    ELSE [r EXCEPT !.pc = "done", !.resp = NoResp, !.err = r.finalErr]

\* Mutant: "no such host" recorded only when no failure is recorded yet.
AfterIPsKeepFirst(r) ==
    IF Len(r.ips.a) = 0
    THEN Advance([r EXCEPT !.finalErr = IF r.finalErr = NoErr
                                        THEN newNoSuchHostError(Host(r))
                                        ELSE r.finalErr,
                           !.lastFail = Err(<<Plain("DNSError:notfound")>>, Host(r), <<>>, 0)])
    ELSE IF Len(r.ips.a) > 1
         THEN [r EXCEPT !.pc = "ipsRnd"]
         ELSE [r EXCEPT !.pc = "send", !.ii = 1]

\* From `if len(ips) == 0` to the first send: a zero-length list records "no
\* such host" and moves on, a longer one is shuffled (n > 1) and then tried.
AfterIPs(r) ==
    IF Len(r.ips.a) = 0
    THEN Advance([r EXCEPT !.finalErr = newNoSuchHostError(Host(r)),
                           !.lastFail = Err(<<Plain("DNSError:notfound")>>, Host(r), <<>>, 0)])
    ELSE IF Len(r.ips.a) > 1
         THEN [r EXCEPT !.pc = "ipsRnd"]
         ELSE [r EXCEPT !.pc = "send", !.ii = 1]


\* A Go map read: the zero value when the key is absent.
MapGet(f, k, zero) == IF k \in DOMAIN f THEN f[k] ELSE zero

\* Mutant: an entry still served at the instant it expires.
BeforeOrAt(t, exp) == t <= exp

\* time.Now().Before(exp)
Before(t, exp) == t < exp

\* ---------------------------------------------------------------- actions
Set(c, r) == call' = [call EXCEPT ![c] = r]

\* The requests Client.Do hands to the balancer: the URL's host is the host
\* of the base URL put in front of a path or, in the serial workload, the one
\* the URI named itself.
IncomingRequests ==
    { [host |-> UrlHost(BaseURL(1) \o PathURI), explicit |-> FALSE] }
        \cup IF serial THEN {[host |-> ForeignHost, explicit |-> TRUE]} ELSE {}

\* The requests this goroutine calls HTTPBalancer.Do with: in the scene
\* "balancer" any of the above, else the one its Client.Do has built.
Requests(c) ==
    IF scene = "balancer" THEN IncomingRequests
    ELSE {[host |-> cdo[c].host, explicit |-> ~cdo[c].relative]}

\* Do(req), called by the owner of the balancer or, at r.http.Do(req), by
\* Client.Do; lb.mu.RLock(); hosts = lb.hosts; a list of more than one host
\* is copied.
DoBegin(c) ==
    /\ IF scene = "balancer"
       THEN serial => \A d \in Callers : d < c => call[d].pc = "finished"
       ELSE cdo[c].pc = "handed" /\ client.http = "balancer"
    /\ call[c].pc = "idle"
    /\ muWriter = NoCaller
    /\ muReaders' = muReaders \cup {c}
    /\ \E req \in Requests(c) :
          Set(c, [call[c] EXCEPT
                    !.hosts = hosts, !.uriHost = req.host, !.explicit = req.explicit,
                    !.reqHost = req.host, !.reqURLHost = req.host,
                    !.pc = IF Len(hosts) > 1 THEN "hostsRnd" ELSE "hostsUnlock"])
    /\ UNCHANGED <<lbConf, lbCache, muWriter, rndMux, now>>

\* safeRnd.Shuffle, n > 1: r.mux.Lock()
HostsRndLock(c) ==
    /\ call[c].pc = "hostsRnd"
    /\ rndMux = NoCaller
    /\ rndMux' = c
    /\ Set(c, [call[c] EXCEPT !.pc = "hostsShuffle"])
    /\ UNCHANGED <<lbConf, lbCache, muReaders, muWriter, now>>

\* Mutant: no copy is taken, the shuffle reorders lb.hosts itself.
HostsShuffleInPlace(c) ==
    /\ call[c].pc = "hostsShuffle"
    /\ \E p \in Perms(hosts) :
          /\ hosts' = p
          /\ Set(c, [call[c] EXCEPT !.hosts = p, !.pc = "hostsUnlock"])
    /\ rndMux' = NoCaller
    /\ UNCHANGED <<cacheTTL, serial, others, lbCache, muReaders, muWriter, now>>

\* r.rnd.Shuffle on the private copy of the hosts; r.mux.Unlock()
HostsShuffle(c) ==
    /\ call[c].pc = "hostsShuffle"
    /\ \E p \in Perms(call[c].hosts) :
          Set(c, [call[c] EXCEPT !.hosts = p, !.pc = "hostsUnlock"])
    /\ rndMux' = NoCaller
    /\ UNCHANGED <<lbConf, lbCache, muReaders, muWriter, now>>

\* lb.mu.RUnlock(); the loop over the hosts starts (or ends at once).
HostsUnlock(c) ==
    /\ call[c].pc = "hostsUnlock"
    /\ muReaders' = muReaders \ {c}
    /\ Set(c, Advance(call[c]))
    /\ UNCHANGED <<lbConf, lbCache, muWriter, rndMux, now>>

\* Top of the loop body for one host: lb.mu.RLock()
HostRLock(c) ==
    /\ call[c].pc = "host"
    /\ muWriter = NoCaller
    /\ muReaders' = muReaders \cup {c}
    /\ Set(c, [call[c] EXCEPT !.pc = "cacheRead"])
    /\ UNCHANGED <<lbConf, lbCache, muWriter, rndMux, now>>

\* The expiry test and the read of lb.cachedIPs[host].  A hit of at most one
\* address keeps the cached slice itself and unlocks; a longer one is copied
\* element by element (CopyElem); a miss unlocks and resolves.
CacheRead(c) ==
    LET r0 == call[c]
        h == Host(r0)
        hit == h \in DOMAIN cachedExpiry /\ Before(now, cachedExpiry[h])
        got == MapGet(cachedIPs, h, NilSlice)
        r == [r0 EXCEPT !.seen = IF h \notin DOMAIN cachedExpiry THEN "absent"
                                 ELSE IF now >= cachedExpiry[h] THEN "expired"
                                 ELSE "fresh"]
    IN
    /\ r0.pc = "cacheRead"
    /\ IF hit /\ Len(got.a) > 1
       THEN /\ Set(c, [r EXCEPT !.pc = "copy", !.ips = Slice(<<>>), !.ci = 1,
                                !.hit = TRUE, !.resolved = r.resolved + 1,
                                !.ipsFor = h])
            /\ UNCHANGED muReaders
       ELSE /\ muReaders' = muReaders \ {c}
            /\ IF hit /\ ~got.nil
               THEN Set(c, AfterIPs([r EXCEPT !.ips = got, !.shared = TRUE,
                                              !.hit = TRUE, !.resolved = r.resolved + 1,
                                              !.ipsFor = h]))
               ELSE Set(c, [r EXCEPT !.pc = "lookup"])
    /\ UNCHANGED <<lbConf, lbCache, muWriter, rndMux, now>>

\* append([]string(nil), ips...): one element of the cached array is read;
\* after the last one, lb.mu.RUnlock().
CopyElem(c) ==
    LET r == call[c]
        src == cachedIPs[Host(r)].a
        q == [r EXCEPT !.ips = Slice(Append(r.ips.a, src[r.ci])), !.ci = r.ci + 1]
    IN
    /\ r.pc = "copy"
    /\ IF r.ci < Len(src)
       THEN /\ Set(c, q)
            /\ UNCHANGED muReaders
       ELSE /\ Set(c, AfterIPs([q EXCEPT !.ci = 0]))
            /\ muReaders' = muReaders \ {c}
    /\ UNCHANGED <<lbConf, lbCache, muWriter, rndMux, now>>

\* `return resp, err` / `return nil, err` from inside the loops.
Return(r, resp, err) ==
    [r EXCEPT !.pc = "done", !.resp = resp, !.err = err]

\* Mutant: a failed resolution ends the call instead of moving on.
LookupFailReturns(c) ==
    LET r == call[c]
        d == DomainOf(Host(r))
    IN
    /\ r.pc = "lookup"
    /\ Set(c, Return([r EXCEPT !.finalErr = LookupErr(d),
                               !.lookups[Host(r)] = @ + 1,
                               !.lastFail = Err(<<Plain("DNSError:lookup")>>, d, <<>>, 0)],
                      NoResp, LookupErr(d)))
    /\ UNCHANGED <<lbConf, lbCache, lbLocks, now>>

\* Mutant: a failed resolution drops the host's cache entry.
LookupFailEvicts(c) ==
    LET r == call[c]
        d == DomainOf(Host(r))
        keep == DOMAIN cachedIPs \ {Host(r)}
    IN
    /\ r.pc = "lookup"
    /\ Set(c, Advance([r EXCEPT !.finalErr = LookupErr(d),
                                !.lookups[Host(r)] = @ + 1,
                                !.lastFail = Err(<<Plain("DNSError:lookup")>>, d, <<>>, 0)]))
    /\ cachedIPs' = [h \in keep |-> cachedIPs[h]]
    /\ cachedExpiry' = [h \in DOMAIN cachedExpiry \ {Host(r)} |-> cachedExpiry[h]]
    /\ UNCHANGED <<lbConf, written, lbLocks, now>>

\* net.LookupHost(domain) fails: finalErr = err; continue
LookupFail(c) ==
    LET r == call[c]
        d == DomainOf(Host(r))
    IN
    /\ r.pc = "lookup"
    /\ Set(c, Advance([r EXCEPT !.finalErr = LookupErr(d),
                                !.lookups[Host(r)] = @ + 1,
                                !.lastFail = Err(<<Plain("DNSError:lookup")>>, d, <<>>, 0)]))
    /\ UNCHANGED <<lbConf, lbCache, lbLocks, now>>

\* net.LookupHost(domain) succeeds with some list, possibly of no address.
LookupOK(c) ==
    LET r == call[c] IN
    /\ r.pc = "lookup"
    /\ \E res \in LookupResults :
          Set(c, [r EXCEPT !.ips = res, !.lookups[Host(r)] = @ + 1,
                           !.resolved = r.resolved + 1, !.pc = "cacheLock",
                           !.ipsFor = Host(r)])
    /\ UNCHANGED <<lbConf, lbCache, lbLocks, now>>

\* Mutant: the write lock taken without waiting for the readers to leave.
CacheLockIgnoresReaders(c) ==
    /\ call[c].pc = "cacheLock"
    /\ muWriter = NoCaller
    /\ muWriter' = c
    /\ Set(c, [call[c] EXCEPT !.pc = "writeIPs"])
    /\ UNCHANGED <<lbConf, lbCache, muReaders, rndMux, now>>

\* lb.mu.Lock()
CacheLock(c) ==
    /\ call[c].pc = "cacheLock"
    /\ muWriter = NoCaller
    /\ muReaders = {}
    /\ muWriter' = c
    /\ Set(c, [call[c] EXCEPT !.pc = "writeIPs"])
    /\ UNCHANGED <<lbConf, lbCache, muReaders, rndMux, now>>

\* lb.cachedIPs[host] = ips: the map now holds the caller's own slice, and a
\* slice another caller took from the entry it replaces no longer shares it.
WriteIPs(c) ==
    LET r == call[c] IN
    /\ r.pc = "writeIPs"
    /\ cachedIPs' = Put(cachedIPs, Host(r), r.ips)
    /\ call' = [d \in Callers |->
                   IF d = c THEN [r EXCEPT !.pc = "writeExpiry", !.shared = TRUE]
                   ELSE IF call[d].shared /\ Host(call[d]) = Host(r)
                        THEN [call[d] EXCEPT !.shared = FALSE]
                        ELSE call[d]]
    /\ written' = [written EXCEPT !.ips = Put(@, Host(r), c)]
    /\ UNCHANGED <<lbConf, cachedExpiry, lbLocks, now>>

\* lb.cachedExpiry[host] = time.Now().Add(lb.cacheTTL); lb.mu.Unlock()
WriteExpiry(c) ==
    LET r == call[c] IN
    /\ r.pc = "writeExpiry"
    /\ cachedExpiry' = Put(cachedExpiry, Host(r), now + cacheTTL)
    /\ muWriter' = NoCaller
    /\ Set(c, AfterIPs(r))
    /\ written' = [written EXCEPT !.exp = Put(@, Host(r), c)]
    /\ UNCHANGED <<lbConf, cachedIPs, muReaders, rndMux, now>>


\* lb.rnd.Shuffle(len(ips), swap), n > 1: r.mux.Lock(); rand.Shuffle then
\* runs i from the last position down to the second.
IpsRndLock(c) ==
    /\ call[c].pc = "ipsRnd"
    /\ rndMux = NoCaller
    /\ rndMux' = c
    /\ Set(c, [call[c] EXCEPT !.pc = "swap", !.si = Len(call[c].ips.a)])
    /\ UNCHANGED <<lbConf, lbCache, muReaders, muWriter, now>>

\* A store into the caller's array: it is the cached array too while shared.
StoreIP(c, pos, v) ==
    LET r == call[c] IN
    IF r.shared /\ Host(r) \in DOMAIN cachedIPs
    THEN cachedIPs' = [cachedIPs EXCEPT ![Host(r)].a[pos] = v]
    ELSE UNCHANGED cachedIPs

\* After swap(i, j): the next i, or r.mux.Unlock() and the send loop.
SwapDone(r) ==
    IF r.si > 2
    THEN [r EXCEPT !.pc = "swap", !.si = r.si - 1, !.sj = 0, !.tmp = <<>>]
    ELSE [r EXCEPT !.pc = "send", !.si = 0, !.sj = 0, !.tmp = <<>>, !.ii = 1]

\* j := Intn(i+1); ips[i], ips[j] = ips[j], ips[i]: both are read, then
\* ips[i] is stored.  (j = i stores what is there.)
Swap1(c) ==
    LET r == call[c] IN
    /\ r.pc = "swap"
    /\ \E j \in 1..r.si :
          IF j = r.si
          THEN /\ Set(c, SwapDone(r))
               /\ rndMux' = IF r.si > 2 THEN rndMux ELSE NoCaller
               /\ UNCHANGED cachedIPs
          ELSE /\ Set(c, [r EXCEPT !.pc = "swap2", !.sj = j, !.tmp = r.ips.a[r.si],
                                   !.ips.a[r.si] = r.ips.a[j]])
               /\ StoreIP(c, r.si, r.ips.a[j])
               /\ UNCHANGED rndMux
    /\ UNCHANGED <<lbConf, cachedExpiry, written, muReaders, muWriter, now>>

\* The second store of the swap: ips[j] = the old ips[i].
Swap2(c) ==
    LET r == call[c] IN
    /\ r.pc = "swap2"
    /\ Set(c, SwapDone([r EXCEPT !.ips.a[r.sj] = r.tmp]))
    /\ StoreIP(c, r.sj, r.tmp)
    /\ rndMux' = IF r.si > 2 THEN rndMux ELSE NoCaller
    /\ UNCHANGED <<lbConf, cachedExpiry, written, muReaders, muWriter, now>>

\* Mutant: the Host header set to the concrete address.
RequestHostIsAddress(r) == Hostname(r.ips.a[r.ii], PortOf(Host(r)))

\* req.Host = host
RequestHost(r) == Host(r)

\* The attempt as lb.httpClient is handed it: req.Host = host; req.URL.Host
\* = hostname.
Attempt(c) ==
    LET r == call[c] IN
    Request(IF scene = "balancer" THEN UrlScheme(BaseURL(1)) ELSE UrlScheme(cdo[c].uri),
            RequestHost(r), Hostname(r.ips.a[r.ii], PortOf(Host(r))), r.sends + 1)

\* What lb.httpClient.Do(req) returns: in the scene "balancer" the wrapped
\* sender is one of the owner's, else it is what r.http was when
\* EnableHTTPBalance wrapped it.
SenderOutcomes(c) ==
    IF scene = "balancer" THEN CustomOutcomes(Attempt(c))
    ELSE DoOutcomes(client.inner, client.base, client.proxy = "url", Attempt(c))

\* The call's locals once the attempt has returned o: the sends made, the
\* request as the sender was invoked with it (sentHost, sentURLHost, which
\* only observe), and req.Host and req.URL.Host as the sender has left
\* them.
Sent(c, o) ==
    [call[c] EXCEPT !.sentHost = Attempt(c).host, !.sentURLHost = Attempt(c).addr,
                    !.reqHost = o.host, !.reqURLHost = o.addr,
                    !.sends = call[c].sends + 1]

\* Mutant: the attempt is sent with a context of its own, not the caller's.
SendOKFreshContext(c) ==
    LET r == call[c] IN
    /\ r.pc = "send"
    /\ \E o \in SenderOutcomes(c) :
          /\ o.ok
          /\ Set(c, Return(Sent(c, o), Resp(o.host, o.addr, r.sends + 1), NoErr))
    /\ UNCHANGED <<lbConf, lbCache, lbLocks, now>>

\* req.Host = host; req.URL.Host = hostname; lb.httpClient.Do(req) succeeds,
\* which it does only while the request's context is not cancelled; the
\* response is the one to the request as the sender has left it.
SendOK(c) ==
    LET r == call[c] IN
    /\ r.pc = "send"
    /\ ~r.cancelled
    /\ \E o \in SenderOutcomes(c) :
          /\ o.ok
          /\ Set(c, Return(Sent(c, o), Resp(o.host, o.addr, r.sends + 1), NoErr))
    /\ UNCHANGED <<lbConf, lbCache, lbLocks, now>>

\* The same attempt failing: a non-retryable error is returned at once, a
\* retryable one is recorded and the next address (then host) is tried.
SendFail(c) ==
    LET r == call[c] IN
    /\ r.pc = "send"
    /\ \E o \in SenderOutcomes(c) :
          /\ o.err # NoErr
          /\ LET e == o.err
                 q == [Sent(c, o) EXCEPT !.lastFail = e]
             IN
             IF ~isRetryableError(e)
             THEN Set(c, Return(q, NoResp, e))
             ELSE IF r.ii < Len(r.ips.a)
                  THEN Set(c, [q EXCEPT !.finalErr = e, !.ii = r.ii + 1])
                  ELSE Set(c, Advance([q EXCEPT !.finalErr = e]))
    /\ UNCHANGED <<lbConf, lbCache, lbLocks, now>>

\* The same attempt answered with neither a response nor an error, as an
\* HTTPBalancer without hosts answers: err == nil, `return resp, err`.
SendNil(c) ==
    /\ call[c].pc = "send"
    /\ \E o \in SenderOutcomes(c) :
          /\ o.empty
          /\ Set(c, Return([Sent(c, o) EXCEPT !.sentNil = TRUE], NoResp, NoErr))
    /\ UNCHANGED <<lbConf, lbCache, lbLocks, now>>

\* The owner of the balancer has taken the result of its call; the call's
\* locals are gone.
Finish(c) ==
    /\ scene = "balancer"
    /\ call[c].pc = "done"
    /\ Set(c, [IdleCall EXCEPT !.pc = "finished"])
    /\ UNCHANGED <<lbConf, lbCache, lbLocks, now>>

\* The context of the request is cancelled while the call runs (serial
\* workload).
Cancel(c) ==
    LET r == call[c] IN
    /\ serial
    /\ r.pc \notin {"idle", "done", "finished"}
    /\ ~r.cancelled
    /\ Set(c, [r EXCEPT !.cancelled = TRUE, !.cancelledAt = r.sends])
    /\ UNCHANGED <<lbConf, lbCache, lbLocks, now>>

\* The wall clock advances.
Tick ==
    /\ scene = "balancer"
    /\ now < MaxTime
    /\ now' = now + 1
    /\ UNCHANGED <<lbConf, lbCache, lbLocks, call>>

\* ---------------------------------------------------------------- safeRnd
\* The callers of this scene use one safeRnd directly, each shuffling items
\* of its own (numbered 1..n) or drawing an index.
lbBalancer == <<hosts, cacheTTL, serial, lbCache, muReaders, muWriter, now, call>>

SetRnd(c, r) == rnd' = [rnd EXCEPT ![c] = r]

\* The items with those at the 0-based places i and j exchanged.
SwapItems(items, i, j) ==
    [k \in DOMAIN items |-> IF k = i + 1 THEN items[j + 1]
                            ELSE IF k = j + 1 THEN items[i + 1] ELSE items[k]]

\* safeRnd.Shuffle(n, f): `if n <= 1 { return }`, else on to r.mux.Lock().
Shuffle(c) ==
    /\ scene = "rnd"
    /\ rnd[c].pc = "idle"
    /\ \E n \in 0..MaxItems :
          SetRnd(c, [IdleRnd EXCEPT !.op = "Shuffle", !.n = n,
                                    !.items = [k \in 1..n |-> k],
                                    !.pc = IF n <= 1 THEN "done" ELSE "shuffleLock"])
    /\ UNCHANGED <<lbBalancer, rndMux, scene, client, cdo, dial>>

\* Mutant: the generator entered without waiting for its holder to leave.
ShuffleLockNoWait(c) ==
    /\ rnd[c].pc = "shuffleLock"
    /\ rndMux' = c
    /\ SetRnd(c, [rnd[c] EXCEPT !.pc = "shuffle", !.i = rnd[c].n - 1])
    /\ UNCHANGED <<lbBalancer, scene, client, cdo, dial>>

\* Shuffle: r.mux.Lock(); rand.Shuffle starts at i = n - 1.
ShuffleLock(c) ==
    /\ rnd[c].pc = "shuffleLock"
    /\ rndMux = NoCaller
    /\ rndMux' = c
    /\ SetRnd(c, [rnd[c] EXCEPT !.pc = "shuffle", !.i = rnd[c].n - 1])
    /\ UNCHANGED <<lbBalancer, scene, client, cdo, dial>>

\* r.rnd.Shuffle(n, f), one round: j drawn from 0..i, f(i, j), i--; the loop
\* ends when i reaches 0.
ShuffleSwap(c) ==
    LET r == rnd[c] IN
    /\ r.pc = "shuffle"
    /\ \E j \in 0..r.i :
          SetRnd(c, [r EXCEPT !.items = SwapItems(r.items, r.i, j),
                              !.i = r.i - 1,
                              !.pc = IF r.i - 1 > 0 THEN "shuffle" ELSE "shuffleUnlock"])
    /\ UNCHANGED <<lbBalancer, rndMux, scene, client, cdo, dial>>

\* Shuffle: r.mux.Unlock()
ShuffleUnlock(c) ==
    /\ rnd[c].pc = "shuffleUnlock"
    /\ rndMux' = NoCaller
    /\ SetRnd(c, [rnd[c] EXCEPT !.pc = "done"])
    /\ UNCHANGED <<lbBalancer, scene, client, cdo, dial>>

\* safeRnd.IntN(n): on to r.mux.Lock().
IntN(c) ==
    /\ scene = "rnd"
    /\ rnd[c].pc = "idle"
    /\ \E n \in 0..MaxItems :
          SetRnd(c, [IdleRnd EXCEPT !.op = "IntN", !.n = n, !.pc = "intnLock"])
    /\ UNCHANGED <<lbBalancer, rndMux, scene, client, cdo, dial>>

\* IntN: r.mux.Lock()
IntNLock(c) ==
    /\ rnd[c].pc = "intnLock"
    /\ rndMux = NoCaller
    /\ rndMux' = c
    /\ SetRnd(c, [rnd[c] EXCEPT !.pc = "intn"])
    /\ UNCHANGED <<lbBalancer, scene, client, cdo, dial>>

\* n = r.rnd.Intn(n): an index below n; rand.Intn panics when n <= 0, and the
\* mutex, unlocked by no defer, stays locked.
IntNDraw(c) ==
    LET r == rnd[c] IN
    /\ r.pc = "intn"
    /\ IF r.n <= 0
       THEN SetRnd(c, [r EXCEPT !.pc = "panic"])
       ELSE \E k \in 0..(r.n - 1) :
               SetRnd(c, [r EXCEPT !.out = k, !.pc = "intnUnlock"])
    /\ UNCHANGED <<lbBalancer, rndMux, scene, client, cdo, dial>>

\* IntN: r.mux.Unlock(); return n
IntNUnlock(c) ==
    /\ rnd[c].pc = "intnUnlock"
    /\ rndMux' = NoCaller
    /\ SetRnd(c, [rnd[c] EXCEPT !.pc = "done"])
    /\ UNCHANGED <<lbBalancer, scene, client, cdo, dial>>

\* The caller has taken the result and may call again.
RndReturn(c) ==
    /\ rnd[c].pc = "done"
    /\ SetRnd(c, IdleRnd)
    /\ UNCHANGED <<lbBalancer, rndMux, scene, client, cdo, dial>>

\* ---------------------------------------------------------------- Client
\* The callers of these scenes configure one Client and issue requests on it.
\* Configuration is serialized against the requests: a setter runs only
\* while no call is in flight, and none runs after a setter has panicked.
Quiet ==
    /\ ~client.panicked
    /\ \A c \in Callers : cdo[c].pc = "idle" /\ dial[c].pc = "idle"

SetDo(c, r) == cdo' = [cdo EXCEPT ![c] = r]
SetDial(c, r) == dial' = [dial EXCEPT ![c] = r]

\* The window with one more counter value, cut to the latest m values.
Push(w, v, m) == IF Len(w) < m THEN Append(w, v) ELSE Append(Tail(w), v)

\* The hosts EnableHTTPBalance takes from the base URLs.
HostsOf(baseURLs) == [i \in DOMAIN baseURLs |-> UrlHost(baseURLs[i])]

\* The HTTPBalancers stacked in r.http.
Wraps == Len(client.inner) + (IF client.http = "balancer" THEN 1 ELSE 0)

\* The setters' type switch on r.http: the *http.Client itself, or the one an
\* HTTPBalancer wraps directly ("client"); a failed type assertion on the
\* wrapped httpClient ("panic"); no case taken, underClient stays nil ("nil").
UnderClient ==
    IF client.http = "client" THEN "client"
    ELSE IF client.http = "balancer"
    THEN (IF client.inner = <<>> /\ client.base = "client" THEN "client" ELSE "panic")
    ELSE "nil"

\* What SetBaseURLs is given in this scene.
GivenBaseURLs ==
    IF scene = "setup" THEN SingleBaseURLs
    ELSE IF scene = "shared" THEN {<<BaseURL(1)>>}
    ELSE BaseURLLists

\* What Client.Do is given in this scene.
GivenURIs == IF scene = "shared" THEN {PathURI} ELSE URIs

\* How many HTTPBalancers EnableHTTPBalance stacks in this scene.
GivenWraps == IF scene = "shared" THEN 1 ELSE MaxWraps

\* Mutant: SetBaseURLs also gives an installed HTTPBalancer the hosts of the
\* new base URLs.
SetBaseURLsRebuildsHosts ==
    /\ scene \in ClientScenes
    /\ Quiet
    /\ \E baseURLs \in GivenBaseURLs :
          /\ client' = [client EXCEPT !.baseURLs = baseURLs,
                                      !.dns = IF client.http = "client" /\ client.transport = "http"
                                              THEN TRUE ELSE @,
                                      !.window = <<>>]
          /\ hosts' = IF client.http = "balancer" THEN HostsOf(baseURLs) ELSE hosts
    /\ UNCHANGED <<cacheTTL, serial, lbCache, lbLocks, now, call, scene, rnd, cdo, dial>>

\* SetBaseURLs (SetBaseURL for one URL): r.baseURLs = baseURLs; when r.http
\* is an *http.Client with an *http.Transport, the transport's DialContext is
\* wrapped in a new DNSBalancer.  currIndex is left as it is.
SetBaseURLs ==
    /\ scene \in ClientScenes
    /\ Quiet
    /\ \E baseURLs \in GivenBaseURLs :
          client' = [client EXCEPT !.baseURLs = baseURLs,
                                   !.dns = IF client.http = "client" /\ client.transport = "http"
                                           THEN TRUE ELSE @,
                                   !.window = <<>>]
    /\ UNCHANGED <<lbBalancer, rndMux, scene, rnd, cdo, dial>>

\* newHTTPBalancer(http, targetHosts, cacheTTL): the hosts and the TTL
\* given, empty maps, no lock held.  (The zero &HTTPBalancer{} has no hosts
\* and never reaches its maps.)
NewBalancer(targetHosts, ttl) ==
    /\ hosts' = targetHosts
    /\ cacheTTL' = ttl
    /\ cachedIPs' = [h \in {} |-> NilSlice]
    /\ cachedExpiry' = [h \in {} |-> 0]
    /\ written' = [ips |-> [h \in {} |-> NoCaller], exp |-> [h \in {} |-> NoCaller]]
    /\ muReaders' = {}
    /\ muWriter' = NoCaller
    /\ rndMux' = NoCaller

\* EnableHTTPBalance(cacheExpire): when r.http is an *http.Client with an
\* *http.Transport, the transport stops verifying certificates; no base URL,
\* or one that does not parse, is a panic; else r.http becomes a new
\* HTTPBalancer, over the Host of every base URL, that wraps what r.http was.
\* The balancer it replaces in r.http is from then on the new one's sender.
EnableHTTPBalance ==
    /\ scene \in {"setup", "shared"}
    /\ Quiet
    /\ Wraps < GivenWraps
    /\ LET tls == [client EXCEPT
                     !.insecure = IF client.http = "client" /\ client.transport = "http"
                                  THEN TRUE ELSE @]
       IN
       IF \/ Len(client.baseURLs) = 0
          \/ \E i \in DOMAIN client.baseURLs : ParseFails(client.baseURLs[i])
       THEN /\ client' = [tls EXCEPT !.panicked = TRUE]
            /\ UNCHANGED <<hosts, cacheTTL, lbCache, lbLocks>>
       ELSE /\ client' = [tls EXCEPT
                            !.http = "balancer",
                            !.inner = IF client.http = "balancer"
                                      THEN <<hosts>> \o @ ELSE @]
            /\ \E cacheExpire \in 0..MaxTTL :
                  NewBalancer(HostsOf(client.baseURLs), cacheExpire)
    /\ UNCHANGED <<serial, now, call, scene, rnd, cdo, dial>>

\* What SetBaseClient is given: &http.Client{} (no Transport), the zero
\* &HTTPBalancer{} (no hosts, no httpClient), a sender of the caller's own.
BaseClients == {"client", "balancer", "custom"}

\* SetBaseClient: r.http = client.
SetBaseClient ==
    /\ scene = "setup"
    /\ Quiet
    /\ \E x \in BaseClients :
          client' = [client EXCEPT
                       !.http = x, !.inner = <<>>,
                       !.base = IF x = "balancer" THEN "none" ELSE x,
                       !.transport = "default", !.dns = FALSE, !.insecure = FALSE,
                       !.proxy = IF x = "client" THEN "env" ELSE "none"]
    /\ NewBalancer(<<>>, 0)
    /\ UNCHANGED <<serial, now, call, scene, rnd, cdo, dial>>

\* SetTransport, given a new &http.Transport{}: underClient.Transport =
\* transport.  The transport it replaces goes with its DNSBalancer, its TLS
\* configuration and its proxy.  Without an *http.Client to reach, the call
\* panics.
SetTransport ==
    /\ scene = "setup"
    /\ Quiet
    /\ client' = IF UnderClient = "client"
                 THEN [client EXCEPT !.transport = "http", !.dns = FALSE,
                                     !.insecure = FALSE, !.proxy = "none"]
                 ELSE [client EXCEPT !.panicked = TRUE]
    /\ UNCHANGED <<lbBalancer, rndMux, scene, rnd, cdo, dial>>

\* SetDialTimeout: the DialContext of underClient's *http.Transport becomes
\* that of a new DNSBalancer over a new net.Dialer; without an *http.Client
\* or an *http.Transport to reach, the call panics.
SetDialTimeout ==
    /\ scene = "setup"
    /\ Quiet
    /\ client' = IF UnderClient = "client" /\ client.transport = "http"
                 THEN [client EXCEPT !.dns = TRUE]
                 ELSE [client EXCEPT !.panicked = TRUE]
    /\ UNCHANGED <<lbBalancer, rndMux, scene, rnd, cdo, dial>>

\* SetTimeout: underClient.Timeout = timeout; without an *http.Client to
\* reach, the call panics.  (How long a request may take is not part of the
\* state: a request fails or not.)
SetTimeout ==
    /\ scene = "setup"
    /\ Quiet
    /\ client' = IF UnderClient = "client" THEN client
                 ELSE [client EXCEPT !.panicked = TRUE]
    /\ UNCHANGED <<lbBalancer, rndMux, scene, rnd, cdo, dial>>

\* SetMaxIdleConns: MaxIdleConns and MaxConnsPerHost of underClient's
\* *http.Transport; without an *http.Client or an *http.Transport to reach,
\* the call panics.  (Connections are not pooled in the model.)
SetMaxIdleConns ==
    /\ scene = "setup"
    /\ Quiet
    /\ client' = IF UnderClient = "client" /\ client.transport = "http"
                 THEN client
                 ELSE [client EXCEPT !.panicked = TRUE]
    /\ UNCHANGED <<lbBalancer, rndMux, scene, rnd, cdo, dial>>

\* SetProxyURL: the Proxy of underClient's *http.Transport becomes
\* http.ProxyFromEnvironment for "", else the proxy URL given; a proxy URL
\* that does not parse is a panic, as is the lack of an *http.Client or an
\* *http.Transport to reach.
SetProxyURL ==
    /\ scene = "setup"
    /\ Quiet
    /\ \E proxyURL \in ProxyURLs :
          client' = IF UnderClient = "client" /\ client.transport = "http"
                    THEN (IF proxyURL = <<>> THEN [client EXCEPT !.proxy = "env"]
                          ELSE IF ParseFails(proxyURL)
                          THEN [client EXCEPT !.panicked = TRUE]
                          ELSE [client EXCEPT !.proxy = "url"])
                    ELSE [client EXCEPT !.panicked = TRUE]
    /\ UNCHANGED <<lbBalancer, rndMux, scene, rnd, cdo, dial>>

\* The address the transport dials for a request: the proxy's when its
\* Proxy names one, else the one of the URL.
DialTarget(uri) ==
    IF client.proxy = "url"
    THEN CanonicalAddr(UrlScheme(ProxyURL), UrlHost(ProxyURL))
    ELSE CanonicalAddr(UrlScheme(uri), UrlHost(uri))

\* Client.Do up to the choice of a base URL: a URI without a scheme gets the
\* only base URL in front, or goes on to the round-robin selection.
ClientDo(c) ==
    /\ scene \in ClientScenes
    /\ scene = "setup" => c = 1
    /\ cdo[c].pc = "idle"
    /\ dial[c].pc = "idle"
    /\ \E uri \in GivenURIs :
          LET relative == ~ParseFails(uri) /\ UrlScheme(uri) = <<>>
              n        == Len(client.baseURLs)
          IN
          SetDo(c, [IdleDo EXCEPT
                      !.relative = relative,
                      !.uri = IF relative /\ n = 1 THEN client.baseURLs[1] \o uri ELSE uri,
                      !.pc  = IF relative /\ n > 1 THEN "lock" ELSE "request"])
    /\ UNCHANGED <<lbBalancer, rndMux, scene, rnd, client, dial>>

\* Mutant: the selection entered without waiting for the lock's holder.
SelectLockNoWait(c) ==
    /\ cdo[c].pc = "lock"
    /\ client' = [client EXCEPT !.mux = c]
    /\ SetDo(c, [cdo[c] EXCEPT !.pc = "select"])
    /\ UNCHANGED <<lbBalancer, rndMux, scene, rnd, dial>>

\* r.mux.Lock()
SelectLock(c) ==
    /\ cdo[c].pc = "lock"
    /\ client.mux = NoCaller
    /\ client' = [client EXCEPT !.mux = c]
    /\ SetDo(c, [cdo[c] EXCEPT !.pc = "select"])
    /\ UNCHANGED <<lbBalancer, rndMux, scene, rnd, dial>>

\* uri = r.baseURLs[r.currIndex] + uri: an index past the end panics, and
\* the mutex, unlocked by no defer, stays locked.
Select(c) ==
    LET n == Len(client.baseURLs) IN
    /\ cdo[c].pc = "select"
    /\ client' = [client EXCEPT !.window = Push(@, client.currIndex, n)]
    /\ IF client.currIndex >= n
       THEN SetDo(c, [cdo[c] EXCEPT !.pc = "panic"])
       ELSE SetDo(c, [cdo[c] EXCEPT
                        !.uri = client.baseURLs[client.currIndex + 1] \o @,
                        !.pc = "advance"])
    /\ UNCHANGED <<lbBalancer, rndMux, scene, rnd, dial>>

\* r.currIndex = (r.currIndex + 1) % len(r.baseURLs)
SelectAdvance(c) ==
    /\ cdo[c].pc = "advance"
    /\ client' = [client EXCEPT
                    !.currIndex = (client.currIndex + 1) % Len(client.baseURLs)]
    /\ SetDo(c, [cdo[c] EXCEPT !.pc = "unlock"])
    /\ UNCHANGED <<lbBalancer, rndMux, scene, rnd, dial>>

\* r.mux.Unlock()
SelectUnlock(c) ==
    /\ cdo[c].pc = "unlock"
    /\ client' = [client EXCEPT !.mux = NoCaller]
    /\ SetDo(c, [cdo[c] EXCEPT !.pc = "request"])
    /\ UNCHANGED <<lbBalancer, rndMux, scene, rnd, dial>>

\* DialContext up to the lookup: net.SplitHostPort(addr), whose error is
\* returned.
EnterDial(addr) ==
    LET hp == SplitHostPort(addr) IN
    IF hp.ok
    THEN [IdleDial EXCEPT !.pc = "lookup", !.addr = addr,
                          !.host = hp.host, !.port = hp.port]
    ELSE [IdleDial EXCEPT !.pc = "done", !.addr = addr,
                          !.err = Err(<<Plain("AddrError")>>, addr, <<>>, 0)]

\* http.NewRequestWithContext's error for a URL that does not parse.
ParseError == Err(<<Plain("url.Error"), Plain("missing protocol scheme")>>, <<>>, <<>>, 0)

\* http.NewRequestWithContext, which fails a URL that does not parse, and
\* r.http.Do(req).  An HTTPBalancer or a custom sender takes the request
\* over; the plain client fails a URL without a scheme, and else dials the
\* URL's host, through the DNSBalancer when one is installed.
SendRequest(c) ==
    LET r    == cdo[c]
        host == UrlHost(r.uri)
    IN
    /\ r.pc = "request"
    /\ IF ParseFails(r.uri)
       THEN /\ SetDo(c, [r EXCEPT !.pc = "done", !.err = ParseError])
            /\ UNCHANGED dial
       ELSE IF client.http # "client"
       THEN /\ SetDo(c, [r EXCEPT !.host = host, !.pc = "handed"])
            /\ UNCHANGED dial
       ELSE IF UrlScheme(r.uri) = <<>>
       THEN /\ SetDo(c, [r EXCEPT !.pc = "done", !.err = Unsupported(Request(<<>>, host, <<>>, 0))])
            /\ UNCHANGED dial
       ELSE IF client.dns
       THEN /\ SetDo(c, [r EXCEPT !.host = host, !.pc = "dial"])
            /\ SetDial(c, EnterDial(DialTarget(r.uri)))
       ELSE /\ SetDo(c, [r EXCEPT !.host = host, !.pc = "plainDial"])
            /\ UNCHANGED dial
    /\ UNCHANGED <<lbBalancer, rndMux, scene, rnd, client>>

\* What a dial attempt can fail with: a dial-phase error, or another class.
DialChains == {<<OpError("dial")>>, <<Plain("timeout")>>}

\* The transport dials through net.Dialer alone: one attempt.
PlainDial(c) ==
    LET r == cdo[c] IN
    /\ r.pc = "plainDial"
    /\ \/ SetDo(c, [r EXCEPT !.pc = "exchange"])
       \/ SetDo(c, [r EXCEPT !.pc = "done",
                             !.err = Err(<<Plain("url.Error")>>
                                            \o WrapErr(client.proxy = "url",
                                                       <<OpError("dial")>>),
                                         r.host, <<>>, 0)])
    /\ UNCHANGED <<lbBalancer, rndMux, scene, rnd, client, dial>>

\* The transport's dial through DNSBalancer.DialContext has returned: its
\* error fails the request, its connection carries the exchange.
Dialed(c) ==
    LET r == cdo[c]
        d == dial[c]
    IN
    /\ r.pc = "dial"
    /\ d.pc = "done"
    /\ IF d.err # NoErr
       THEN SetDo(c, [r EXCEPT !.pc = "done",
                              !.err = Err(<<Plain("url.Error")>>
                                             \o WrapErr(client.proxy = "url", d.err.chain),
                                          r.host, d.err.ip, 0)])
       ELSE SetDo(c, [r EXCEPT !.pc = "exchange"])
    /\ SetDial(c, IdleDial)
    /\ UNCHANGED <<lbBalancer, rndMux, scene, rnd, client>>

\* The request is written and the response read on the connection.
Exchange(c) ==
    LET r == cdo[c] IN
    /\ r.pc = "exchange"
    /\ \/ SetDo(c, [r EXCEPT !.pc = "done", !.ok = TRUE])
       \/ SetDo(c, [r EXCEPT !.pc = "done",
                             !.err = Err(<<Plain("url.Error"), OpError("read")>>,
                                         r.host, <<>>, 0)])
    /\ UNCHANGED <<lbBalancer, rndMux, scene, rnd, client, dial>>

\* r.http.Do(req) of a sender of the caller's own.
CustomDo(c) ==
    LET r == cdo[c] IN
    /\ r.pc = "handed"
    /\ client.http = "custom"
    /\ \E o \in CustomOutcomes(Request(UrlScheme(r.uri), r.host, <<>>, 0)) :
          SetDo(c, [r EXCEPT !.pc = "done", !.ok = o.ok, !.empty = o.empty,
                             !.err = o.err])
    /\ UNCHANGED <<lbBalancer, rndMux, scene, rnd, client, dial>>

\* r.http.Do(req) of the HTTPBalancer has returned: resp, err := ...; the
\* call's locals are gone.
Handed(c) ==
    LET r == cdo[c]
        b == call[c]
    IN
    /\ r.pc = "handed"
    /\ client.http = "balancer"
    /\ b.pc = "done"
    /\ SetDo(c, [r EXCEPT !.pc = "done", !.ok = b.resp.ok,
                          !.empty = ~b.resp.ok /\ b.err = NoErr,
                          !.err = b.err])
    /\ Set(c, IdleCall)
    /\ UNCHANGED <<hosts, cacheTTL, serial, lbCache, lbLocks, now, scene, rnd,
                   client, dial>>

\* return &Resp{resp}, nil or return nil, err: the caller may call again.
ClientReturn(c) ==
    /\ cdo[c].pc = "done"
    /\ SetDo(c, IdleDo)
    /\ UNCHANGED <<lbBalancer, rndMux, scene, rnd, client, dial>>

\* ---------------------------------------------------------------- DNSBalancer
\* The addresses DialContext is called with directly: "a:80", and "b", which
\* has no port.
DialAddrs == {HostName(1), HostName(2)}

\* DNSBalancer.DialContext called by a user of the dialer.
DialContext(c) ==
    /\ scene = "dial"
    /\ dial[c].pc = "idle"
    /\ \E addr \in DialAddrs : SetDial(c, EnterDial(addr))
    /\ UNCHANGED <<lbBalancer, rndMux, scene, rnd, client, cdo>>

\* net.LookupHost(host) fails: return nil, err
DialLookupFail(c) ==
    LET d == dial[c] IN
    /\ d.pc = "lookup"
    /\ SetDial(c, [d EXCEPT !.pc = "done", !.err = LookupErr(d.host),
                            !.looked = Append(@, d.host)])
    /\ UNCHANGED <<lbBalancer, rndMux, scene, rnd, client, cdo>>

\* net.LookupHost(host) returns a list: an empty one is "no such host", one
\* of several addresses is shuffled, and then the addresses are dialed.
DialLookupOK(c) ==
    LET d == dial[c] IN
    /\ d.pc = "lookup"
    /\ \E res \in LookupResults :
          LET q == [d EXCEPT !.ips = res.a, !.resolved = res.a,
                             !.looked = Append(@, d.host)]
          IN
          IF Len(res.a) = 0
          THEN SetDial(c, [q EXCEPT !.pc = "done", !.err = newNoSuchHostError(d.host)])
          ELSE IF Len(res.a) > 1
          THEN SetDial(c, [q EXCEPT !.pc = "rnd"])
          ELSE SetDial(c, [q EXCEPT !.pc = "dial", !.i = 1])
    /\ UNCHANGED <<lbBalancer, rndMux, scene, rnd, client, cdo>>

\* lb.rnd.Shuffle, n > 1: r.mux.Lock()
DialRndLock(c) ==
    /\ dial[c].pc = "rnd"
    /\ rndMux = NoCaller
    /\ rndMux' = c
    /\ SetDial(c, [dial[c] EXCEPT !.pc = "shuffle"])
    /\ UNCHANGED <<lbBalancer, scene, rnd, client, cdo>>

\* r.rnd.Shuffle on the list the resolver returned; r.mux.Unlock()
DialShuffle(c) ==
    /\ dial[c].pc = "shuffle"
    /\ \E p \in Perms(dial[c].ips) :
          SetDial(c, [dial[c] EXCEPT !.ips = p, !.pc = "dial", !.i = 1])
    /\ rndMux' = NoCaller
    /\ UNCHANGED <<lbBalancer, scene, rnd, client, cdo>>

\* lb.dialContext(ctx, network, net.JoinHostPort(ip, port)) connects, which
\* it does only while ctx is not cancelled: return conn, nil
DialOK(c) ==
    LET d  == dial[c]
        to == JoinHostPort(d.ips[d.i], d.port)
    IN
    /\ d.pc = "dial"
    /\ ~d.cancelled
    /\ SetDial(c, [d EXCEPT !.pc = "done", !.conn = to, !.tried = Append(@, to)])
    /\ UNCHANGED <<lbBalancer, rndMux, scene, rnd, client, cdo>>

\* Mutant: an error that is not dial-phase ends the loop, as in
\* HTTPBalancer.Do.
DialFailStopsOnOtherClass(c) ==
    LET d  == dial[c]
        to == JoinHostPort(d.ips[d.i], d.port)
    IN
    /\ d.pc = "dial"
    /\ \E ch \in DialChains :
          LET e == Err(ch, d.host, to, Len(d.tried) + 1)
              q == [d EXCEPT !.lastErr = e, !.tried = Append(@, to)]
          IN
          IF d.i < Len(d.ips) /\ isRetryableError(e)
          THEN SetDial(c, [q EXCEPT !.i = d.i + 1])
          ELSE SetDial(c, [q EXCEPT !.pc = "done", !.err = e])
    /\ UNCHANGED <<lbBalancer, rndMux, scene, rnd, client, cdo>>

\* lb.dialContext fails: lastErr = err, and the next address is dialed; after
\* the last address: return nil, lastErr
DialFail(c) ==
    LET d  == dial[c]
        to == JoinHostPort(d.ips[d.i], d.port)
    IN
    /\ d.pc = "dial"
    /\ \E ch \in DialChains :
          LET e == Err(ch, d.host, to, Len(d.tried) + 1)
              q == [d EXCEPT !.lastErr = e, !.tried = Append(@, to)]
          IN
          IF d.i < Len(d.ips)
          THEN SetDial(c, [q EXCEPT !.i = d.i + 1])
          ELSE SetDial(c, [q EXCEPT !.pc = "done", !.err = e])
    /\ UNCHANGED <<lbBalancer, rndMux, scene, rnd, client, cdo>>

\* The context of a direct caller is cancelled while the call runs.
DialCancel(c) ==
    LET d == dial[c] IN
    /\ scene = "dial"
    /\ d.pc \notin {"idle", "done"}
    /\ ~d.cancelled
    /\ SetDial(c, [d EXCEPT !.cancelled = TRUE, !.cancelledAt = Len(d.tried)])
    /\ UNCHANGED <<lbBalancer, rndMux, scene, rnd, client, cdo>>

\* The direct caller has taken the result and may call again.
DialReturn(c) ==
    /\ dial[c].pc = "done"
    /\ cdo[c].pc = "idle"
    /\ SetDial(c, IdleDial)
    /\ UNCHANGED <<lbBalancer, rndMux, scene, rnd, client, cdo>>

Next ==
    \/ SetBaseURLs
    \/ EnableHTTPBalance
    \/ SetBaseClient
    \/ SetTransport
    \/ SetDialTimeout
    \/ SetTimeout
    \/ SetMaxIdleConns
    \/ SetProxyURL
    \/ \E c \in Callers :
          \/ ClientDo(c) \/ SelectLock(c) \/ Select(c) \/ SelectAdvance(c)
          \/ SelectUnlock(c) \/ SendRequest(c) \/ PlainDial(c) \/ Dialed(c)
          \/ Exchange(c) \/ CustomDo(c) \/ Handed(c) \/ ClientReturn(c)
    \/ \E c \in Callers :
          \/ DialContext(c) \/ DialLookupFail(c) \/ DialLookupOK(c)
          \/ DialRndLock(c) \/ DialShuffle(c) \/ DialOK(c) \/ DialFail(c)
          \/ DialCancel(c) \/ DialReturn(c)
    \/ \E c \in Callers :
          \/ Shuffle(c) \/ ShuffleLock(c) \/ ShuffleSwap(c) \/ ShuffleUnlock(c)
          \/ IntN(c) \/ IntNLock(c) \/ IntNDraw(c) \/ IntNUnlock(c)
          \/ RndReturn(c)
    \/ \E c \in Callers :
          \/ DoBegin(c) \/ HostsRndLock(c) \/ HostsShuffle(c) \/ HostsUnlock(c)
          \/ HostRLock(c) \/ CacheRead(c) \/ CopyElem(c)
          \/ LookupFail(c) \/ LookupOK(c)
          \/ CacheLock(c) \/ WriteIPs(c) \/ WriteExpiry(c)
          \/ IpsRndLock(c) \/ Swap1(c) \/ Swap2(c)
          \/ SendOK(c) \/ SendFail(c) \/ SendNil(c) \/ Cancel(c) \/ Finish(c)
    \/ Tick

Spec == Init /\ [][Next]_vars


\* ================================================================ claims
Calls == {call[c] : c \in Callers}

\* The error is dial-phase: it is, or wraps, a net.OpError whose Op is "dial".
DialPhase(e) == \E i \in DOMAIN e.chain : e.chain[i] = OpError("dial")
SendFailure(e) == e.n > 0

\* C1: a send attempt that fails with an error that is not dial-phase ends the
\* call at once: Do returns exactly that error and no response, and the
\* failed attempt is the last send of the call.
C1_NonRetryableAborts ==
    \A r \in Calls :
        (SendFailure(r.lastFail) /\ ~DialPhase(r.lastFail)) =>
            /\ r.pc = "done"
            /\ r.err = r.lastFail
            /\ ~r.resp.ok
            /\ r.sends = r.lastFail.n

\* C1's case: the first send of a call failed with a non-dial error while
\* another address of the host and another host were still untried.
C1_Witness ==
    \E r \in Calls :
        /\ r.pc = "done" /\ r.sends = 1 /\ ~DialPhase(r.err) /\ SendFailure(r.err)
        /\ r.hi < Len(r.hosts) /\ r.ii < Len(r.ips.a)

\* C2 (as claimed): a call whose attempt number K+1 succeeds, after K
\* dial-phase failures, returns that response with a nil error and has made
\* exactly K+1 sends; and a dial-phase failure never ends the call while a
\* candidate is left.  An http.Client behind a proxy URL breaks the second
\* half: its failed dial is OpError(proxyconnect) around OpError(dial), and
\* isRetryableError reads the Op of the outer one.
C2_SuccessAfterRetries ==
    \A r \in Calls :
        /\ (r.pc = "done" /\ r.resp.ok) =>
              /\ r.err = NoErr
              /\ r.resp.n = r.sends
              /\ r.resp.host = r.reqHost /\ r.resp.addr = r.reqURLHost
              /\ SendFailure(r.lastFail) =>
                    (DialPhase(r.lastFail) /\ r.lastFail.n = r.sends - 1)
        /\ (r.pc = "done" /\ ~r.resp.ok /\ SendFailure(r.err) /\ DialPhase(r.err)) =>
              (r.hi = Len(r.hosts) /\ r.ii = Len(r.ips.a))

\* C3: a call in which no address list was obtained for any host (no cache
\* hit, every LookupHost failed) has resolved each configured host exactly
\* once, has sent nothing, and returns the resolution error of the host that
\* was last in its shuffled order (with N = 0 hosts there is no such host
\* and no error).
C3_AllResolutionsFail ==
    \A r \in Calls :
        (r.pc = "done" /\ r.resolved = 0) =>
            /\ \A h \in Range(hosts) : r.lookups[h] = 1
            /\ r.sends = 0
            /\ ~r.resp.ok
            /\ r.err = IF r.hosts = <<>> THEN NoErr
                       ELSE LookupErr(DomainOf(r.hosts[Len(r.hosts)]))

\* C3's case: two hosts, both resolutions failed.
C3_Witness ==
    \E r \in Calls :
        r.pc = "done" /\ r.resolved = 0 /\ Len(r.hosts) = 2 /\ Len(hosts) = 2

\* C4: a call that returns without a success (its sender gave an error, or
\* it ran out of hosts) returns the failure that was recorded last, whatever
\* its class; never an earlier one, and never nil when it had a host to try.
C4_LastErrorReturned ==
    \A r \in Calls :
        (r.pc = "done" /\ ~r.resp.ok /\ ~r.sentNil) =>
            /\ r.err = r.lastFail
            /\ r.hosts # <<>> => r.err # NoErr

\* C4's case: a retryable send failure was recorded first and superseded by a
\* later "no such host" of the next host.
C4_Witness ==
    \E r \in Calls :
        /\ r.pc = "done" /\ ~r.resp.ok /\ r.sends > 0
        /\ r.err.chain = <<Plain("DNSError:notfound")>>

\* C5: every attempt is issued for a configured host: the req.Host that the
\* wrapped sender is invoked with is a member of lb.hosts, at every attempt a
\* call has made (whatever the sender leaves in the request afterwards).
C5_HostInConfiguredSet ==
    \A r \in Calls : r.sends > 0 => r.sentHost \in Range(hosts)

\* C5's case: an attempt was issued for a configured host, and the sender, a
\* wrapped HTTPBalancer with a host of its own, has left that host in
\* req.Host.
C5_Witness ==
    \E r \in Calls :
        r.sends > 0 /\ r.sentHost \in Range(hosts) /\ r.reqHost \notin Range(hosts)


\* The list LookupHost returns when it knows k addresses.
ResolvedList(k) == [i \in 1..k |-> IPName(i)]

\* C6 (as claimed): no entry of the resolution cache holds a zero-length
\* address list, because a resolution of zero addresses is never stored.
C6_NoZeroLengthEntry ==
    \A h \in DOMAIN cachedIPs : Len(cachedIPs[h].a) > 0

\* C7 (as claimed): the list a call takes from an unexpired entry holds
\* exactly the addresses that were resolved for it (content-equal, whatever
\* their order), and an entry found absent or expired is never used.
C7_FreshEntryServedAsResolved ==
    \A r \in Calls :
        /\ (r.hit /\ r.pc # "copy") => r.ips.a \in Perms(ResolvedList(Len(r.ips.a)))
        /\ r.seen \in {"absent", "expired"} => ~r.hit

\* C8: a LookupHost failure leaves both cache maps as they were and records
\* the resolver's error as the call's current failure.
C8_FailedLookupLeavesCache ==
    [][\A c \in Callers :
          (/\ call[c].pc = "lookup"
           /\ call'[c].lookups # call[c].lookups
           /\ call'[c].resolved = call[c].resolved)
          => /\ cachedIPs' = cachedIPs
             /\ cachedExpiry' = cachedExpiry
             /\ call'[c].finalErr = LookupErr(DomainOf(Host(call[c])))]_vars

\* C8's case: the resolution of a host failed while the cache held an
\* (expired) entry for that very host.
C8_Witness ==
    \E r \in Calls :
        /\ serial /\ r.pc = "host" /\ r.hi = 2
        /\ r.lastFail.chain = <<Plain("DNSError:lookup")>>
        /\ r.hosts[1] \in DOMAIN cachedIPs
        /\ r.lastFail.host = DomainOf(r.hosts[1])

\* C9: with a TTL of zero no lookup ever finds a servable entry: every host
\* a call tries is resolved afresh and no cached list is used.
C9_ZeroTTLResolvesFresh ==
    cacheTTL = 0 => \A r \in Calls : ~r.hit /\ r.seen # "fresh"

\* C9's case: under TTL zero a call is resolving a host although an earlier
\* call stored a non-empty list for it.
C9_Witness ==
    /\ cacheTTL = 0
    /\ \E r \in Calls :
          /\ r.pc = "lookup" /\ r.seen = "expired"
          /\ Len(cachedIPs[Host(r)].a) > 0

\* The callers between Lock and Unlock, and between RLock and RUnlock.
CacheWriters == {c \in Callers : call[c].pc \in {"writeIPs", "writeExpiry"}}
CacheReaders ==
    {c \in Callers :
        call[c].pc \in {"hostsRnd", "hostsShuffle", "hostsUnlock", "cacheRead", "copy"}}

\* C10: at most one caller is writing the cache and then none is reading
\* it; and whenever no write is in progress (all a reader can see) the two
\* maps have the same hosts and each host's list and expiry were stored by
\* the same write.
C10_CacheWritesExclusive ==
    /\ Cardinality(CacheWriters) <= 1
    /\ CacheWriters # {} => CacheReaders = {}
    /\ CacheWriters = {} =>
          /\ DOMAIN cachedIPs = DOMAIN cachedExpiry
          /\ \A h \in DOMAIN cachedIPs : written.ips[h] = written.exp[h]

\* C10's case: one caller is in the middle of a write (list stored, expiry
\* not yet, so the maps disagree) while another, about to read the same
\* host, waits for the read lock.
C10_Witness ==
    \E c, d \in Callers :
        /\ call[c].pc = "writeExpiry" /\ call[d].pc = "host"
        /\ Host(call[c]) = Host(call[d])
        /\ DOMAIN cachedIPs # DOMAIN cachedExpiry

\* The callers inside the generator: in rand.Shuffle or rand.Intn, through
\* safeRnd or through one of the balancer's shuffles.
InGenerator ==
    {c \in Callers : rnd[c].pc \in {"shuffle", "intn"}}
        \cup {c \in Callers : call[c].pc \in {"hostsShuffle", "swap", "swap2"}}

IsPermutation(items, n) ==
    Len(items) = n /\ {items[k] : k \in 1..n} = 1..n

\* C11: Shuffle and IntN called concurrently never run the generator
\* concurrently: at most one caller is inside it, the holder of the mutex.
\* A Shuffle leaves the caller's n items a permutation of them (untouched
\* when n <= 1), and an IntN(n) with n > 0 returns an index in 0..n-1.
C11_GeneratorExclusive ==
    /\ Cardinality(InGenerator) <= 1
    /\ \A c \in InGenerator : rndMux = c
    /\ \A c \in Callers :
          LET r == rnd[c] IN
          /\ r.op = "Shuffle" => IsPermutation(r.items, r.n)
          /\ (r.op = "Shuffle" /\ r.n <= 1) =>
                r.pc = "done" /\ r.items = [k \in 1..r.n |-> k]
          /\ (r.op = "IntN" /\ r.n > 0 /\ r.pc \in {"intnUnlock", "done"}) =>
                r.out \in 0..(r.n - 1)

\* One caller is in the middle of a shuffle that has already reordered its
\* items while another waits to draw an index.
C11_Witness ==
    \E c, d \in Callers :
        /\ rnd[c].pc = "shuffle"
        /\ rnd[c].items # [k \in 1..rnd[c].n |-> k]
        /\ rnd[d].pc = "intnLock"
        /\ rnd[d].n > 0

\* The callers performing a random draw or waiting for the generator.
Drawing ==
    {c \in Callers :
        call[c].pc \in {"hostsRnd", "hostsShuffle", "ipsRnd", "swap", "swap2"}}

\* C12: the randomness lock is never held during a name resolution or a
\* send, and no caller performs a random draw, or waits for one, while it
\* holds the resolution-cache lock.
C12_RandomnessIndependent ==
    /\ \A c \in Callers : call[c].pc \in {"lookup", "send"} => rndMux # c
    /\ \A c \in Drawing : c \notin muReaders /\ muWriter # c

\* The host list the balancer was constructed with: the one of the workload
\* or, on a Client, none (no balancer, or the zero one) or the hosts of the
\* base URLs that EnableHTTPBalance found.
ConstructedHosts ==
    IF scene = "balancer"
    THEN {IF serial THEN TargetHosts ELSE SubSeq(TargetHosts, 1, 1)}
    ELSE {<<>>} \cup {HostsOf(l) : l \in GivenBaseURLs}

\* C13: Do never changes lb.hosts: the list keeps the elements and the order
\* it was constructed with.  Each call works on its own list, a reordering of
\* lb.hosts, and a single-host list is used as it is.
C13_HostsNeverMutated ==
    /\ hosts \in ConstructedHosts
    /\ \A c \in Callers :
          call[c].hosts # <<>> =>
              /\ call[c].hosts \in Perms(hosts)
              /\ Len(hosts) = 1 => call[c].hosts = hosts

\* A call sends to a host of its own reordered list while lb.hosts is as
\* constructed.
C13_Witness ==
    \E c \in Callers :
        /\ call[c].pc = "send"
        /\ Len(call[c].hosts) > 1
        /\ call[c].hosts # hosts
        /\ hosts \in ConstructedHosts

\* The hosts of the HTTPBalancers stacked in r.http, outermost first.
Layers == IF client.http = "balancer" THEN <<hosts>> \o client.inner ELSE <<>>

\* C14 (as claimed): EnableHTTPBalance without base URLs panics and installs
\* no balancer, so every installed HTTPBalancer has at least one host: no
\* request reaches a balancer with an empty host list, and none comes back
\* from one with neither a response nor an error.
C14_BalancerNeedsHosts ==
    /\ \A i \in DOMAIN Layers : Len(Layers[i]) > 0
    /\ \A c \in Callers : ~cdo[c].empty
    /\ scene = "balancer" => Len(hosts) > 0

\* C15: in simple mode with M > 1 base URLs, M consecutive selections take
\* every base URL exactly once whatever the counter holds when they start:
\* every call selects a base URL, and the latest M counter values read are
\* the M indices.
C15_RoundRobinCoversAll ==
    LET M == Len(client.baseURLs) IN
    (client.http = "client" /\ M > 1) =>
        /\ \A c \in Callers : cdo[c].pc # "panic"
        /\ Len(client.window) = M => Range(client.window) = 0..(M - 1)

\* The callers between r.mux.Lock() and r.mux.Unlock() of the selection.
Selecting == {c \in Callers : cdo[c].pc \in {"select", "advance", "unlock", "panic"}}

\* C16: the read-increment-write of the round-robin counter is atomic under
\* any interleaving of Client.Do calls: one caller at a time is inside it,
\* the counter values that consecutive selections read are consecutive modulo
\* the number of base URLs (no two calls read the same value), and every read
\* is followed by exactly one increment (no update is lost).
C16_CounterUpdateAtomic ==
    LET M == Len(client.baseURLs)
        w == client.window
    IN
    /\ Cardinality(Selecting) <= 1
    /\ \A c \in Selecting : client.mux = c
    /\ \A i \in 1..(Len(w) - 1) : w[i + 1] = (w[i] + 1) % M
    /\ w # <<>> =>
          client.currIndex =
              IF \E c \in Callers : cdo[c].pc \in {"advance", "panic"}
              THEN w[Len(w)]
              ELSE (w[Len(w)] + 1) % M

\* One call has read the counter and not yet written it back while another
\* call waits for the lock, after at least one earlier selection.
C16_Witness ==
    \E c, d \in Callers :
        /\ cdo[c].pc = "advance"
        /\ cdo[d].pc = "lock"
        /\ Len(client.window) >= 2

\* The addresses of a list, each joined with the port.
Targets(ips, port) == [k \in DOMAIN ips |-> JoinHostPort(ips[k], port)]

IsPrefix(s, t) == Len(s) <= Len(t) /\ s = SubSeq(t, 1, Len(s))

\* C17: DialContext resolves only the host of its address, and dials the
\* resolved addresses one at a time in the shuffled order, each at most once.
\* The first dial that connects ends the call with that connection; when
\* every dial has failed the call returns the error of the last dial,
\* whatever its class.
C17_DialsInOrderUntilSuccess ==
    \A c \in Callers :
        LET d == dial[c] IN
        /\ \A k \in DOMAIN d.looked : d.looked[k] = SplitHostPort(d.addr).host
        /\ Len(d.looked) <= 1
        /\ d.ips \in Perms(d.resolved)
        /\ IsPrefix(d.tried, Targets(d.ips, d.port))
        /\ d.conn # <<>> =>
              /\ d.pc = "done" /\ d.err = NoErr
              /\ d.conn = d.tried[Len(d.tried)]
        /\ (d.pc = "done" /\ d.conn = <<>> /\ d.tried # <<>>) =>
              /\ Len(d.tried) = Len(d.ips)
              /\ d.err = d.lastErr
              /\ d.err.ip = d.tried[Len(d.tried)]
        /\ d.pc = "dial" => Len(d.tried) = d.i - 1

\* Both dials of a two-address list, reordered by the shuffle, have failed,
\* the second with an error that is not dial-phase, which the call returns.
C17_Witness ==
    \E c \in Callers :
        LET d == dial[c] IN
        /\ d.pc = "done"
        /\ Len(d.tried) = 2
        /\ d.ips # d.resolved
        /\ d.conn = <<>>
        /\ ~DialPhase(d.err)
        /\ d.err.n = 2

\* C18: a base URL or an upstream host is supplied only to a request whose
\* URI names no location of its own.  Client.Do leaves a URI with a scheme
\* and a host as it is, and the balancer sends such a request to the host
\* its URI names, not to a configured upstream.
C18_ExplicitLocationKept ==
    /\ \A c \in Callers :
          (cdo[c].pc # "idle" /\ ~cdo[c].relative) => UrlHost(cdo[c].uri) = ForeignHost
    /\ \A c \in Callers :
          (call[c].explicit /\ call[c].sends > 0) =>
              /\ call[c].reqHost \notin Range(hosts)
              /\ call[c].reqURLHost = call[c].uriHost

\* C19: in simple mode (several base URLs, no HTTPBalancer) a Client.Do call
\* that was given a path resolves no name and retries nothing inside the
\* library: no host is looked up and no second address is dialed.
C19_SimpleModeNoResolution ==
    \A c \in Callers :
        (/\ client.http = "client"
         /\ Len(client.baseURLs) > 1
         /\ cdo[c].relative
         /\ cdo[c].pc # "idle") =>
            /\ dial[c].looked = <<>>
            /\ Len(dial[c].tried) <= 1

\* C20: the caller's cancellation reaches every attempt of both loops.  No
\* send of HTTPBalancer.Do and no dial of DialContext made after the
\* cancellation succeeds, and the attempts are bounded by the loops: at most
\* one send per address of each host's list, one dial per resolved address.
C20_CancellationBoundsAttempts ==
    /\ \A c \in Callers :
          LET r == call[c] IN
          /\ (r.cancelled /\ r.resp.ok) => r.resp.n <= r.cancelledAt
          /\ r.pc = "send" => r.ii \in 1..Len(r.ips.a)
          /\ r.hi > 0 => r.sends <= (r.hi - 1) * MaxIPs + r.ii
    /\ \A c \in Callers :
          LET d == dial[c] IN
          /\ (d.cancelled /\ d.conn # <<>>) => Len(d.tried) <= d.cancelledAt
          /\ Len(d.tried) <= Len(d.ips)

\* A Do call cancelled after its first send failed with a dial-phase error
\* went on to the next attempt, which failed too, and ended with that error.
C20_Witness ==
    \E c \in Callers :
        /\ call[c].pc = "done"
        /\ call[c].cancelled
        /\ call[c].cancelledAt = 1
        /\ call[c].sends = 2
        /\ ~call[c].resp.ok
        /\ call[c].err = call[c].lastFail

\* C21: a list stored in the resolution cache is never changed in place:
\* every cached list is still the list as the resolver returned it, and no
\* shuffle works on a list that the cache holds.
C21_CachedListNeverMutated ==
    /\ \A h \in DOMAIN cachedIPs :
          cachedIPs[h].a = ResolvedList(Len(cachedIPs[h].a))
    /\ \A c \in Callers : call[c].pc \in {"swap", "swap2"} => ~call[c].shared

\* C22: at every send attempt the request's Host, as the wrapped sender is
\* invoked with it, is the logical host being tried, the URL's destination is
\* the address being tried, joined with the host's port when it has one, and
\* the address is one of the list obtained (from the cache or the resolver)
\* for that same host.
C22_AttemptTargetsCurrentHost ==
    [][\A c \in Callers :
          call'[c].sends = call[c].sends + 1 =>
             LET r == call[c]
                 host == Host(r)
                 ip == r.ips.a[r.ii]
                 port == PortOf(host)
             IN
             /\ r.pc = "send"
             /\ call'[c].sentHost = host
             /\ call'[c].sentURLHost =
                   (IF port = <<>> THEN ip ELSE ip \o <<58>> \o port)
             /\ r.ipsFor = host
             /\ ip \in Range(ResolvedList(MaxIPs))]_vars

\* C22 witness: a first attempt went to the first address of the list of the
\* host that has a port, joined with that port, and failed; the call is about
\* to try the second address of that list.
C22_Witness ==
    \E c \in Callers :
       /\ call[c].pc = "send"
       /\ call[c].sends = 1
       /\ call[c].ii = 2
       /\ call[c].sentHost = HostName(1)
       /\ PortOf(call[c].sentHost) # <<>>
       /\ call[c].sentURLHost = call[c].ips.a[1] \o <<58>> \o PortOf(call[c].sentHost)
       /\ call[c].ipsFor = HostName(1)

\* C23 (as claimed): with a non-empty host set, a call of HTTPBalancer.Do
\* that has returned gave either a response and no error or no response and
\* an error, never both and never neither, whatever the resolver and the
\* sender did.
C23_ExactlyOneOfResponseAndError ==
    \A c \in Callers :
       (call[c].pc = "done" /\ Len(hosts) > 0) =>
          (call[c].resp.ok <=> call[c].err = NoErr)

\* C24 (as claimed): whenever a selection is about to index the base URLs
\* with the round-robin counter, the counter is a valid index of the list,
\* also after the list was replaced by a shorter one.
C24_CounterValidWhenUsed ==
    \A c \in Callers :
       cdo[c].pc = "select" =>
          (client.currIndex >= 0 /\ client.currIndex < Len(client.baseURLs))

\* C25: the host set of an HTTPBalancer is fixed when EnableHTTPBalance
\* installs it, to the hosts of the base URLs configured at that moment: a
\* step either leaves the installed balancers and their hosts as they are,
\* or puts a balancer over the hosts of the current base URLs on top of
\* them, or replaces r.http as a whole (SetBaseClient).  A step that changes
\* the client's base URLs leaves the installed balancers, their hosts and
\* the cache as they are.
C25_HostSetFixedAtEnable ==
    [][/\ \/ Layers' = Layers
          \/ Layers' = <<HostsOf(client.baseURLs)>> \o Layers
          \/ Layers' \in {<<>>, << <<>> >>}
       /\ client'.baseURLs # client.baseURLs =>
             /\ Layers' = Layers
             /\ client'.base = client.base
             /\ UNCHANGED <<hosts, cachedIPs, cachedExpiry>>]_vars

\* C25 witness: a balancer is installed and the base URLs were replaced
\* afterwards, so the balancer's hosts are no longer the hosts of the
\* client's base URLs.
C25_Witness ==
    /\ client.http = "balancer"
    /\ hosts # <<>>
    /\ hosts[1] \in DOMAIN cachedIPs
    /\ client.baseURLs # <<>>
    /\ hosts # HostsOf(client.baseURLs)

\* The caller stands before one of the locks: the randomness lock, the
\* read or the write lock of the resolution cache, the round-robin lock.
AtLock(c) ==
    \/ call[c].pc \in {"hostsRnd", "host", "cacheLock", "ipsRnd"}
    \/ cdo[c].pc = "handed" /\ client.http = "balancer" /\ call[c].pc = "idle"
    \/ cdo[c].pc = "lock"
    \/ dial[c].pc = "rnd"

\* The step that takes the lock the caller stands before.
TakeLock(c) ==
    \/ DoBegin(c)
    \/ HostsRndLock(c) \/ HostRLock(c) \/ CacheLock(c) \/ IpsRndLock(c)
    \/ SelectLock(c) \/ DialRndLock(c)

\* sync.RWMutex lets no new reader in while a writer waits: the caller is
\* about to take the read lock and another one is about to take, or waits
\* for, the write lock.
BehindWriter(c) ==
    /\ \/ call[c].pc = "host"
       \/ cdo[c].pc = "handed" /\ client.http = "balancer" /\ call[c].pc = "idle"
    /\ \E d \in Callers : call[d].pc = "cacheLock"

\* The caller is inside a call that has neither returned nor panicked.
Unfinished(c) ==
    \/ call[c].pc \notin {"idle", "done", "finished"}
    \/ cdo[c].pc \notin {"idle", "done", "panic"}

\* The caller can take a step of its call: it stands before no lock (the
\* resolver and the sender return), or it can take the lock it stands
\* before, also when a waiting writer keeps new readers out.
CanStep(c) ==
    AtLock(c) => ((ENABLED TakeLock(c)) /\ ~BehindWriter(c))

\* C26 (as claimed): the locks of HTTPBalancer.Do and Client.Do never
\* deadlock: whenever some call has not finished, some unfinished call can
\* take a step (the resolver and the sender always return).
C26_LocksNeverDeadlock ==
    (scene \in {"balancer"} \cup ClientScenes /\ \E c \in Callers : Unfinished(c)) =>
        \E c \in Callers : Unfinished(c) /\ CanStep(c)

====
